---- MODULE Spec2Model ----
(***************************************************************************)
(* Model of src/main.py (gcp-resource-collector).                          *)
(*                                                                         *)
(* Quantities:                                                             *)
(*   - byte counts are held in units of 2^30 / UnitsPerGB bytes, so that   *)
(*     "bytes / 1024**3" is units / UnitsPerGB;                            *)
(*   - every value the code passes through round(x, 2) is held as an       *)
(*     integer number of hundredths of a GB;                               *)
(*   - a machine spec (cpu, memory_gb) is held as                          *)
(*     <<hundredths of a vCPU, memory in MB>>, so that 0.25 vCPU and       *)
(*     custom_memory / 1024 are exact.                                     *)
(* A remote listing (a pager) is a record [items, fails]: the items it     *)
(* yields and whether it raises after yielding them (fails with no items   *)
(* is a failure of the listing call itself).                               *)
(***************************************************************************)
EXTENDS Integers, Sequences, FiniteSets, TLC

VARIABLES entry, pc, self, project_id, ctor_fails, machine_type, disks, zones,
          snapshots, buckets, specs, disks_info, zi, ii, instances_info,
          si, total_snapshot_gb, snapshot_usage, bi, gcs_usage, total_gcs_gb,
          result, caught

vars == <<entry, pc, self, project_id, ctor_fails, machine_type, disks, zones,
          snapshots, buckets, specs, disks_info, zi, ii, instances_info,
          si, total_snapshot_gb, snapshot_usage, bi, gcs_usage, total_gcs_gb,
          result, caught>>

inputs == <<entry, self, project_id, ctor_fails, machine_type, disks, zones,
            snapshots, buckets>>

\* ------------------------------------------------------------------ bounds
MaxSegments == 4
MaxDisks == 3
MaxZones == 2
MaxInstances == 2
MaxSnapshots == 3
MaxBuckets == 2
MaxBlobs == 2

\* --------------------------------------------------------------- constants
\* 1024**3 bytes per GB, in model units
UnitsPerGB == 512
\* custom_memory / 1024
MBPerGB == 1024
\* default local SSD size, 375.0 GB
DefaultLocalSsdGB == 375

None == "None"
NoException == "none"

SeqsUpTo(S, n) == UNION {[1..k -> S] : k \in 0..n}
Listings(S, n) == [items : SeqsUpTo(S, n), fails : BOOLEAN]

RECURSIVE SumSeq(_)
SumSeq(s) == IF s = <<>> THEN 0 ELSE Head(s) + SumSeq(Tail(s))

\* round(x, 2) of x = num / den GB, in hundredths: Python rounds the exactly
\* represented binary fraction to the nearest hundredth, ties to even.
RoundHalfEven(num, den) ==
    LET q == num \div den
        r == num % den
    IN  IF 2 * r < den THEN q
        ELSE IF 2 * r > den THEN q + 1
        ELSE IF q % 2 = 0 THEN q ELSE q + 1

\* round(float(units) / (1024**3), 2)
Round2Units(units) == RoundHalfEven(units * 100, UnitsPerGB)

\* -------------------------------------------------------- get_machine_specs
\* A machine type is the sequence of its '-' separated segments.
Words == {"n2", "e2", "m1", "standard", "highmem", "highcpu", "custom",
          "micro", "small", "medium", "x"}
Numerals == {"1", "4", "8192"}
Tokens == Words \cup Numerals

\* int(s): the value of a decimal numeral, ValueError for anything else
IsNumeric(tok) == tok \in Numerals
IntOf(tok) == CASE tok = "1" -> 1 [] tok = "4" -> 4 [] tok = "8192" -> 8192

\* 'kw' in machine_type: kw holds no '-', so it occurs in the string iff it
\* occurs in one segment; a token of Tokens holds kw only when it is kw.
Contains(mt, kw) == \E i \in DOMAIN mt : mt[i] = kw

Returned(v) == [raised |-> NoException, value |-> v]
Raised(e) == [raised |-> e, value |-> None]

Spec_(cpu_count, memory_mb) == <<cpu_count * 100, memory_mb>>

MutHighmemRatio(mt) ==
    IF mt = <<"e2", "micro">> THEN Returned(<<25, 1 * MBPerGB>>)
    ELSE IF mt = <<"e2", "small">> THEN Returned(<<50, 2 * MBPerGB>>)
    ELSE IF mt = <<"e2", "medium">> THEN Returned(<<100, 4 * MBPerGB>>)
    ELSE IF Len(mt) < 3 THEN Returned(Spec_(2, 8 * MBPerGB))
    ELSE IF ~IsNumeric(mt[Len(mt)]) THEN Raised("ValueError")
    ELSE IF ~IsNumeric(mt[3]) THEN Returned(Spec_(2, 8 * MBPerGB))
    ELSE LET cpu_count == IntOf(mt[3])
             custom_memory == IntOf(mt[Len(mt)])
         IN  IF Contains(mt, "standard")
                THEN Returned(Spec_(cpu_count, cpu_count * 4 * MBPerGB))
             ELSE IF Contains(mt, "highmem")
                THEN Returned(Spec_(cpu_count, cpu_count * 4 * MBPerGB))
             ELSE IF Contains(mt, "highcpu")
                THEN Returned(Spec_(cpu_count, cpu_count * 1 * MBPerGB))
             ELSE IF Contains(mt, "custom")
                THEN Returned(Spec_(cpu_count, custom_memory))
             ELSE Returned(Spec_(cpu_count, cpu_count * 4 * MBPerGB))

get_machine_specs(mt) ==
    IF mt = <<"e2", "micro">> THEN Returned(<<25, 1 * MBPerGB>>)
    ELSE IF mt = <<"e2", "small">> THEN Returned(<<50, 2 * MBPerGB>>)
    ELSE IF mt = <<"e2", "medium">> THEN Returned(<<100, 4 * MBPerGB>>)
    ELSE IF Len(mt) < 3 THEN Returned(Spec_(2, 8 * MBPerGB))
    \* line 33, outside the try: int(parts[-1])
    ELSE IF ~IsNumeric(mt[Len(mt)]) THEN Raised("ValueError")
    \* lines 35-38
    ELSE IF ~IsNumeric(mt[3]) THEN Returned(Spec_(2, 8 * MBPerGB))
    ELSE LET cpu_count == IntOf(mt[3])
             custom_memory == IntOf(mt[Len(mt)])
         IN  IF Contains(mt, "standard")
                THEN Returned(Spec_(cpu_count, cpu_count * 4 * MBPerGB))
             ELSE IF Contains(mt, "highmem")
                THEN Returned(Spec_(cpu_count, cpu_count * 8 * MBPerGB))
             ELSE IF Contains(mt, "highcpu")
                THEN Returned(Spec_(cpu_count, cpu_count * 1 * MBPerGB))
             ELSE IF Contains(mt, "custom")
                \* custom_memory / 1024 GB is custom_memory MB
                THEN Returned(Spec_(cpu_count, custom_memory))
             ELSE Returned(Spec_(cpu_count, cpu_count * 4 * MBPerGB))

\* ------------------------------------------------------------ idle values
Idle ==
    /\ specs = None
    /\ disks_info = None
    /\ zi = 0 /\ ii = 0 /\ instances_info = <<>>
    /\ si = 0 /\ total_snapshot_gb = 0 /\ snapshot_usage = None
    /\ bi = 0 /\ gcs_usage = None /\ total_gcs_gb = 0
    /\ result = None
    /\ caught = NoException

NoListing == [items |-> <<>>, fails |-> FALSE]

\* The attributes an instance of GCPResourceCollector has: those __init__
\* sets and the one method defined in the class body.  The functions of
\* lines 54-237 are defined at module level, outside the class.
ClassAttrs == {"project_id", "compute_client", "disk_client",
               "snapshot_client", "storage_client", "get_machine_specs"}

\* ---------------------------------------------- specification: MachineSpecs
MachineTypes == UNION {[1..k -> Tokens] : k \in 1..MaxSegments}

InitMachine ==
    /\ entry = "get_machine_specs"
    /\ pc = "get_machine_specs"
    /\ self = ClassAttrs
    /\ project_id = "p1" /\ ctor_fails = FALSE
    /\ machine_type \in MachineTypes
    /\ disks = <<>>
    /\ zones = NoListing /\ snapshots = NoListing /\ buckets = NoListing
    /\ Idle

Resolve ==
    /\ pc = "get_machine_specs"
    /\ specs' = get_machine_specs(machine_type)
    /\ pc' = "done"
    /\ UNCHANGED <<inputs, disks_info, zi, ii, instances_info, si,
                   total_snapshot_gb, snapshot_usage, bi, gcs_usage,
                   total_gcs_gb, result, caught>>

NextMachine == Resolve

SpecMachine == InitMachine /\ [][NextMachine]_vars

\* The documented taxonomy (spec section 4.1), written as a table.
Ratio(family) ==
    CASE family = "standard" -> 4 [] family = "highmem" -> 8 [] family = "highcpu" -> 1

WellFormed(mt) ==
    \/ mt \in {<<"e2", "micro">>, <<"e2", "small">>, <<"e2", "medium">>}
    \/ /\ Len(mt) = 3
       /\ mt[1] \in {"e2", "n2"}
       /\ mt[2] \in {"standard", "highmem", "highcpu"}
       /\ IsNumeric(mt[3]) /\ IntOf(mt[3]) >= 1
    \/ /\ Len(mt) = 4
       /\ mt[1] \in {"e2", "n2"}
       /\ mt[2] = "custom"
       /\ IsNumeric(mt[3]) /\ IsNumeric(mt[4])

Documented(mt) ==
    IF mt = <<"e2", "micro">> THEN <<25, 1024>>
    ELSE IF mt = <<"e2", "small">> THEN <<50, 2048>>
    ELSE IF mt = <<"e2", "medium">> THEN <<100, 4096>>
    ELSE IF mt[2] = "custom" THEN <<100 * IntOf(mt[3]), IntOf(mt[4])>>
    ELSE <<100 * IntOf(mt[3]), 1024 * IntOf(mt[3]) * Ratio(mt[2])>>

\* C5: on every well-formed supported machine type get_machine_specs returns
\* the documented (vCPU, memory) pair: the three shared-core pairs, (n, n*ratio)
\* with ratio 4, 8, 1 for standard, highmem, highcpu, and (n, m/1024) for custom.
C5_Taxonomy ==
    (pc = "done" /\ WellFormed(machine_type))
        => specs = Returned(Documented(machine_type))

C5_Witness ==
    /\ pc = "done"
    /\ machine_type = <<"n2", "custom", "4", "8192">>
    /\ specs = Returned(<<400, 8192>>)

\* C6: a machine type of at least 3 segments whose segment 2 is not numeric
\* yields the fallback (2, 8) and get_machine_specs does not fail.
C6_NonNumericFallback ==
    (pc = "done" /\ Len(machine_type) >= 3 /\ ~IsNumeric(machine_type[3]))
        => specs = Returned(<<200, 8192>>)

\* C7: a machine type of at least 3 segments whose series is not n2 or e2
\* yields None (Unsupported) instead of a (vCPU, memory) pair.
C7_UnsupportedSeries ==
    (pc = "done" /\ Len(machine_type) >= 3 /\ machine_type[1] \notin {"n2", "e2"})
        => specs = Returned(None)

\* ------------------------------------------------------- get_instance_disks
DiskTypes == {"pd-standard", "pd-balanced", "pd-ssd", "local-ssd"}

\* An attached disk as the instance listing gives it, with what disk_client.get
\* answers for it: source (non-empty or not), type_, disk_size_gb (Absent when
\* the attribute is missing), get_fails (the disk get raises), and the disk
\* detail: dtype (last path segment of type), size_attr (which size attribute
\* the detail has), size (GB for size_gb, units for size_bytes).
Absent == -1

Persistent(get_fails, dtype, size_attr, size) ==
    [source |-> TRUE, type_ |-> "PERSISTENT", disk_size_gb |-> Absent,
     get_fails |-> get_fails, dtype |-> dtype, size_attr |-> size_attr,
     size |-> size]

Local(type_, disk_size_gb) ==
    [source |-> FALSE, type_ |-> type_, disk_size_gb |-> disk_size_gb,
     get_fails |-> FALSE, dtype |-> None, size_attr |-> "none", size |-> 0]

FailingDisk == Persistent(TRUE, None, "none", 0)
SsdDisk == Persistent(FALSE, "pd-ssd", "size_gb", 10)
ScratchDisk == Local("SCRATCH", Absent)

DiskKinds ==
    { FailingDisk,
      SsdDisk,
      Persistent(FALSE, "pd-standard", "size_bytes", 64),
      Persistent(FALSE, "pd-extreme", "size_gb", 5),
      Persistent(FALSE, "pd-balanced", "none", 0),
      ScratchDisk,
      Local("SCRATCH", 100),
      Local("PERSISTENT", Absent) }

\* lines 129-134
EmptyBreakdown == [k \in DiskTypes |-> 0]

\* One pass of the loop body, lines 139-178, on the breakdown so far.
DiskStep(info, disk) ==
    IF disk.source
    THEN IF disk.get_fails THEN info                   \* lines 167-168
         ELSE IF disk.size_attr = "none" THEN info     \* lines 155-157
         ELSE LET size_gb == IF disk.size_attr = "size_gb"
                             THEN disk.size * 100
                             ELSE Round2Units(disk.size)
              IN  IF disk.dtype \in DOMAIN info
                  THEN [info EXCEPT ![disk.dtype] = @ + size_gb]
                  ELSE info
    ELSE IF disk.type_ = "SCRATCH"
    THEN LET local_ssd_size == IF disk.disk_size_gb = Absent
                               THEN DefaultLocalSsdGB
                               ELSE disk.disk_size_gb
         IN  [info EXCEPT !["local-ssd"] = @ + local_ssd_size * 100]
    ELSE info

RECURSIVE DiskLoop(_, _)
DiskLoop(info, ds) ==
    IF ds = <<>> THEN info ELSE DiskLoop(DiskStep(info, Head(ds)), Tail(ds))

\* The loop as it would run with the disk get outside any inner try: the
\* first failing get ends the loop with what was accumulated so far.
RECURSIVE AbortingDiskLoop(_, _)
AbortingDiskLoop(info, ds) ==
    IF ds = <<>> THEN info
    ELSE IF Head(ds).source /\ Head(ds).get_fails THEN info
    ELSE AbortingDiskLoop(DiskStep(info, Head(ds)), Tail(ds))

MutDisksAbortOnFailure(instance_disks) ==
    AbortingDiskLoop(EmptyBreakdown, instance_disks)

\* get_instance_disks: the breakdown in hundredths of a GB.  Every amount
\* added is a multiple of 0.01, so the final round(x, 2) per key (lines
\* 184-185) only removes floating-point noise and leaves the hundredths.
get_instance_disks(instance_disks) ==
    DiskLoop(EmptyBreakdown, instance_disks)

\* ---------------------------------------------------- get_compute_resources
\* The series test with one more series let through.
MutSupportedSeries == {"n2", "e2", "m1"}

\* line 79
SupportedSeries == {"n2", "e2"}

\* An instance as the listing gives it: the last path segment of its
\* machine_type, its status and its attached disks.  Its name is its
\* position in the zone's listing, the zone's name the zone's position.
\* The network interfaces are left out: lines 90-103 and 115-116 copy
\* addresses under hasattr guards and cannot fail.
Instance(mt, ds) == [machine_type |-> mt, status |-> "RUNNING", disks |-> ds]

InstanceKinds ==
    { Instance(<<"n2", "standard", "4">>, <<SsdDisk, FailingDisk, ScratchDisk>>),
      Instance(<<"m1", "standard", "4">>, <<>>),
      Instance(<<"n2", "standard", "x">>, <<>>) }

\* The listings drawn for zones and instances fail, if they fail, at the
\* listing call (no item yielded); the actions handle any listing.
CallListings(S, n) ==
    {[items |-> s, fails |-> FALSE] : s \in SeqsUpTo(S, n)}
        \cup {[items |-> <<>>, fails |-> TRUE]}

ZoneKinds == CallListings(InstanceKinds, MaxInstances)
ZoneListings == CallListings(ZoneKinds, MaxZones)

\* The object passed as self to the module-level functions: an instance of
\* the class as written, or one on which they are reachable as attributes.
ModuleFunctions == {"get_compute_resources", "get_instance_disks",
                    "get_snapshot_usage", "get_gcs_usage"}
Receivers == {ClassAttrs, ClassAttrs \cup ModuleFunctions}

InitCompute ==
    /\ entry = "get_compute_resources"
    /\ pc = "zone_loop"
    /\ self \in Receivers
    /\ project_id = "p1" /\ ctor_fails = FALSE
    /\ machine_type = <<>>
    /\ disks = <<>>
    /\ zones \in ZoneListings
    /\ snapshots = NoListing /\ buckets = NoListing
    /\ specs = None /\ disks_info = None
    /\ zi = 1 /\ ii = 1 /\ instances_info = <<>>
    /\ si = 0 /\ total_snapshot_gb = 0 /\ snapshot_usage = None
    /\ bi = 0 /\ gcs_usage = None /\ total_gcs_gb = 0
    /\ result = None
    /\ caught = NoException

InitDisks ==
    /\ entry = "get_instance_disks"
    /\ pc = "get_instance_disks"
    /\ self = ClassAttrs
    /\ project_id = "p1" /\ ctor_fails = FALSE
    /\ machine_type = <<>>
    /\ disks \in SeqsUpTo(DiskKinds, MaxDisks)
    /\ zones = NoListing /\ snapshots = NoListing /\ buckets = NoListing
    /\ Idle

\* get_instance_disks called on its own
ResolveDisks ==
    /\ pc = "get_instance_disks"
    /\ disks_info' = get_instance_disks(disks)
    /\ pc' = "done"
    /\ UNCHANGED <<inputs, specs, zi, ii, instances_info, si,
                   total_snapshot_gb, snapshot_usage, bi, gcs_usage,
                   total_gcs_gb, result, caught>>

computeFrame == <<inputs, specs, disks_info, si, total_snapshot_gb,
                  snapshot_usage, bi, gcs_usage, total_gcs_gb, result>>

\* for zone in zones (lines 60-67): the next zone and its instance listing,
\* or the end of the zone listing: exhausted (return, line 125) or raising
\* (except, lines 122-123, then return).
ZoneLoop ==
    /\ pc = "zone_loop"
    /\ IF zi <= Len(zones.items)
       THEN /\ pc' = "instance_loop"
            /\ ii' = 1
            /\ UNCHANGED caught
       ELSE /\ pc' = "done"
            /\ caught' = IF zones.fails THEN "Exception" ELSE caught
            /\ UNCHANGED ii
    /\ UNCHANGED <<computeFrame, zi, instances_info>>

\* The body of "for instance in instances", lines 69-120, for one instance.
\* An exception leaves both loops for the handler of lines 122-123.
ProcessInstance ==
    /\ pc = "instance_loop"
    /\ ii <= Len(zones.items[zi].items)
    /\ LET instance == zones.items[zi].items[ii]
           mt == instance.machine_type
           series == mt[1]
           s == get_machine_specs(mt)
       IN  IF series \notin SupportedSeries
           THEN /\ ii' = ii + 1                                 \* continue
                /\ UNCHANGED <<pc, instances_info, caught>>
           ELSE IF s.raised # NoException
           THEN /\ pc' = "done"
                /\ caught' = s.raised
                /\ UNCHANGED <<ii, instances_info>>
           ELSE IF s.value = None
           THEN /\ ii' = ii + 1                                 \* continue
                /\ UNCHANGED <<pc, instances_info, caught>>
           ELSE IF "get_instance_disks" \notin self             \* line 106
           THEN /\ pc' = "done"
                /\ caught' = "AttributeError"
                /\ UNCHANGED <<ii, instances_info>>
           ELSE /\ instances_info' = Append(instances_info,
                       [name |-> ii, zone |-> zi, machine_type |-> mt,
                        status |-> instance.status,
                        cpu |-> s.value[1], memory_gb |-> s.value[2],
                        disks |-> get_instance_disks(instance.disks)])
                /\ ii' = ii + 1
                /\ UNCHANGED <<pc, caught>>
    /\ UNCHANGED <<computeFrame, zi>>

\* The end of one zone's instance listing: exhausted (next zone) or raising
\* (lines 122-123, then return).
InstanceLoopEnd ==
    /\ pc = "instance_loop"
    /\ ii > Len(zones.items[zi].items)
    /\ IF zones.items[zi].fails
       THEN /\ pc' = "done"
            /\ caught' = "Exception"
            /\ UNCHANGED <<zi, ii>>
       ELSE /\ pc' = "zone_loop"
            /\ zi' = zi + 1
            /\ ii' = 1
            /\ UNCHANGED caught
    /\ UNCHANGED <<computeFrame, instances_info>>

NextInstances == ResolveDisks \/ ZoneLoop \/ ProcessInstance \/ InstanceLoopEnd

SpecInstances == (InitCompute \/ InitDisks) /\ [][NextInstances]_vars

\* The positions (zone z, instance i) the loops have gone past.
Before(z, i) == z < zi \/ (z = zi /\ i < ii)

Emitted(z, i) ==
    \E k \in DOMAIN instances_info :
        instances_info[k].zone = z /\ instances_info[k].name = i

\* An instance every step of whose processing succeeds: a supported series,
\* a machine type get_machine_specs resolves, the disk collection reachable.
CanProcess(instance) ==
    /\ instance.machine_type[1] \in {"n2", "e2"}
    /\ get_machine_specs(instance.machine_type).raised = NoException
    /\ "get_instance_disks" \in self

\* C2: when the listing of one zone or the processing of one instance fails,
\* only that unit is skipped: every instance of a supported series that can be
\* listed and processed without failure is in the returned list.
C2_FailureSkipsOnlyItsUnit ==
    (entry = "get_compute_resources" /\ pc = "done") =>
        \A z \in DOMAIN zones.items :
            \A i \in DOMAIN zones.items[z].items :
                CanProcess(zones.items[z].items[i]) => Emitted(z, i)

\* C8: in every state of get_compute_resources, and in the returned list,
\* every instance record has a machine type whose series is n2 or e2.
C8_OnlySupportedSeriesEmitted ==
    entry = "get_compute_resources" =>
        \A k \in DOMAIN instances_info :
            instances_info[k].machine_type[1] \in {"n2", "e2"}

C8_Witness ==
    /\ entry = "get_compute_resources"
    /\ pc = "done"
    /\ instances_info # <<>>
    /\ \E z \in DOMAIN zones.items :
           \E i \in DOMAIN zones.items[z].items :
               /\ Before(z, i)
               /\ zones.items[z].items[i].machine_type[1] = "m1"

\* What one attached disk adds to the key k of the breakdown, alone.
Contribution(disk, k) ==
    IF disk.source
    THEN IF disk.get_fails \/ disk.size_attr = "none" \/ disk.dtype # k THEN 0
         ELSE IF disk.size_attr = "size_gb" THEN disk.size * 100
         ELSE Round2Units(disk.size)
    ELSE IF disk.type_ = "SCRATCH" /\ k = "local-ssd"
    THEN (IF disk.disk_size_gb = Absent THEN 375 ELSE disk.disk_size_gb) * 100
    ELSE 0

ExpectedBreakdown(ds) ==
    [k \in {"pd-standard", "pd-balanced", "pd-ssd", "local-ssd"} |->
        SumSeq([i \in DOMAIN ds |-> Contribution(ds[i], k)])]

HasFailingDisk(ds) == \E i \in DOMAIN ds : ds[i].source /\ ds[i].get_fails

\* C10: a failing disk get skips only that disk reference: the breakdown
\* get_instance_disks returns has exactly the four keys and holds, per key, the
\* sum of what every other disk contributes; and an instance whose disk
\* collection met such a failure is still emitted, with that breakdown.
C10_DiskFailureSkipsOnlyThatDisk ==
    /\ (entry = "get_instance_disks" /\ pc = "done" /\ HasFailingDisk(disks))
           => disks_info = ExpectedBreakdown(disks)
    /\ entry = "get_compute_resources" =>
           \A z \in DOMAIN zones.items :
               \A i \in DOMAIN zones.items[z].items :
                   LET instance == zones.items[z].items[i]
                   IN  (/\ Before(z, i)
                        /\ CanProcess(instance)
                        /\ HasFailingDisk(instance.disks))
                       => \E k \in DOMAIN instances_info :
                              /\ instances_info[k].zone = z
                              /\ instances_info[k].name = i
                              /\ instances_info[k].disks
                                     = ExpectedBreakdown(instance.disks)

C10_Witness ==
    /\ entry = "get_compute_resources"
    /\ pc = "done"
    /\ \E k \in DOMAIN instances_info :
           LET instance == zones.items[instances_info[k].zone]
                                .items[instances_info[k].name]
           IN  /\ instance.disks = <<SsdDisk, FailingDisk, ScratchDisk>>
               /\ instances_info[k].disks["pd-ssd"] = 1000
               /\ instances_info[k].disks["local-ssd"] = 37500
               /\ DOMAIN instances_info[k].disks
                      = {"pd-standard", "pd-balanced", "pd-ssd", "local-ssd"}

\* ------------------------------------------------------- get_snapshot_usage
\* A snapshot as listed: storage_bytes in units and disk_size_gb in GB, 0 for
\* a value that is unset (falsy).
Snapshot(storage_bytes, disk_size_gb) ==
    [storage_bytes |-> storage_bytes, disk_size_gb |-> disk_size_gb]

SnapshotKinds ==
    {Snapshot(64, 0), Snapshot(512, 10), Snapshot(0, 10), Snapshot(0, 0)}

InitSnapshot ==
    /\ entry = "get_snapshot_usage"
    /\ pc = "snapshot_loop"
    /\ self = ClassAttrs
    /\ project_id = "p1" /\ ctor_fails = FALSE
    /\ machine_type = <<>>
    /\ disks = <<>>
    /\ zones = NoListing /\ buckets = NoListing
    /\ snapshots \in Listings(SnapshotKinds, MaxSnapshots)
    /\ specs = None /\ disks_info = None
    /\ zi = 0 /\ ii = 0 /\ instances_info = <<>>
    /\ si = 1 /\ total_snapshot_gb = 0 /\ snapshot_usage = None
    /\ bi = 0 /\ gcs_usage = None /\ total_gcs_gb = 0
    /\ result = None
    /\ caught = NoException

snapshotFrame == <<inputs, specs, disks_info, zi, ii, instances_info, bi,
                   gcs_usage, total_gcs_gb, result>>

\* What one snapshot adds to total_snapshot_gb (lines 196-202), in units:
\* the sums of k / 2^30 and of whole GB are exact in floating point here.
SnapshotGB(snapshot) ==
    IF snapshot.storage_bytes # 0 THEN snapshot.storage_bytes
    ELSE IF snapshot.disk_size_gb # 0 THEN snapshot.disk_size_gb * UnitsPerGB
    ELSE 0

\* The body of "for snapshot in snapshots", lines 195-202
SnapshotNext ==
    /\ pc = "snapshot_loop"
    /\ si <= Len(snapshots.items)
    /\ total_snapshot_gb' = total_snapshot_gb + SnapshotGB(snapshots.items[si])
    /\ si' = si + 1
    /\ UNCHANGED <<snapshotFrame, pc, snapshot_usage, caught>>

\* As SnapshotReturn would be with the handler resetting the total.
MutSnapshotReturnZeroOnFailure ==
    /\ pc = "snapshot_loop"
    /\ si > Len(snapshots.items)
    /\ caught' = IF snapshots.fails THEN "Exception" ELSE caught
    /\ snapshot_usage' = IF snapshots.fails THEN 0
                         ELSE Round2Units(total_snapshot_gb)
    /\ pc' = "done"
    /\ UNCHANGED <<snapshotFrame, si, total_snapshot_gb>>

\* The end of the listing, exhausted or raising (lines 204-205), and the
\* return of line 207.
SnapshotReturn ==
    /\ pc = "snapshot_loop"
    /\ si > Len(snapshots.items)
    /\ caught' = IF snapshots.fails THEN "Exception" ELSE caught
    /\ snapshot_usage' = Round2Units(total_snapshot_gb)
    /\ pc' = "done"
    /\ UNCHANGED <<snapshotFrame, si, total_snapshot_gb>>

NextSnapshot == SnapshotNext \/ SnapshotReturn

SpecSnapshot == InitSnapshot /\ [][NextSnapshot]_vars

\* C9 as stated: when snapshot collection fails at any point, at the listing
\* call or while iterating, get_snapshot_usage returns 0.
C9_FailureYieldsZero ==
    (entry = "get_snapshot_usage" /\ pc = "done" /\ snapshots.fails)
        => snapshot_usage = 0

\* C9 amended: when snapshot collection fails, get_snapshot_usage catches the
\* failure and returns the rounded sum of the snapshots iterated before it,
\* which is 0 when the listing call itself fails.
C9_FailureYieldsPartialSum ==
    (entry = "get_snapshot_usage" /\ pc = "done" /\ snapshots.fails) =>
        /\ caught = "Exception"
        /\ snapshot_usage =
               RoundHalfEven(
                   100 * SumSeq([i \in DOMAIN snapshots.items |->
                                    SnapshotGB(snapshots.items[i])]),
                   512)
        /\ snapshots.items = <<>> => snapshot_usage = 0

C9_Witness ==
    /\ entry = "get_snapshot_usage"
    /\ pc = "done"
    /\ snapshots.fails
    /\ snapshots.items = <<Snapshot(64, 0), Snapshot(0, 10)>>
    /\ snapshot_usage = 1012

\* ------------------------------------------------------------ get_gcs_usage
BucketNames == <<"b1", "b2", "total_gcs_gb">>
\* blob sizes in units: 1/8 GB and 1 GB
BlobSizes == {64, 512}

\* Bucket listings: buckets of distinct names, in the lexicographic order
\* the listing returns them in, each with the listing of its blobs' sizes.
IncreasingIndexes(k) ==
    {f \in [1..k -> DOMAIN BucketNames] : \A a, b \in 1..k : a < b => f[a] < f[b]}

Bucket(name, blobs) == [name |-> name, blobs |-> blobs]

InitGcs ==
    /\ entry = "get_gcs_usage"
    /\ pc = "bucket_loop"
    /\ self = ClassAttrs
    /\ project_id = "p1" /\ ctor_fails = FALSE
    /\ machine_type = <<>>
    /\ disks = <<>>
    /\ zones = NoListing /\ snapshots = NoListing
    /\ \E k \in 0..MaxBuckets :
           \E idx \in IncreasingIndexes(k) :
               \E bl \in [1..k -> Listings(BlobSizes, MaxBlobs)] :
                   \E fails \in BOOLEAN :
                       buckets = [items |-> [i \in 1..k |->
                                      Bucket(BucketNames[idx[i]], bl[i])],
                                  fails |-> fails]
    /\ specs = None /\ disks_info = None
    /\ zi = 0 /\ ii = 0 /\ instances_info = <<>>
    /\ si = 0 /\ total_snapshot_gb = 0 /\ snapshot_usage = None
    /\ bi = 1 /\ gcs_usage = [n \in {} |-> 0] /\ total_gcs_gb = 0
    /\ result = None
    /\ caught = NoException

gcsFrame == <<inputs, specs, disks_info, zi, ii, instances_info, si,
              total_snapshot_gb, snapshot_usage, result>>

\* gcs_usage[key] = value
Put(usage, key, value) ==
    [n \in DOMAIN usage \cup {key} |-> IF n = key THEN value ELSE usage[n]]

\* Lines 217-226: the sizes of the blobs the listing yields are added up
\* (the guard of line 223 skips a blob of size 0 or None, which would add
\* nothing); a raising listing is caught and leaves the sum of what it
\* yielded before.
bucket_size_bytes(blobs) == SumSeq(blobs.items)

\* As BucketNext would be with a raising blob listing leaving the bucket out.
MutBucketNextDropsFailedBucket ==
    /\ pc = "bucket_loop"
    /\ bi <= Len(buckets.items)
    /\ LET bucket == buckets.items[bi]
           bucket_size_gb == Round2Units(bucket_size_bytes(bucket.blobs))
       IN  IF bucket.blobs.fails
           THEN UNCHANGED <<gcs_usage, total_gcs_gb>>
           ELSE /\ gcs_usage' = Put(gcs_usage, bucket.name, bucket_size_gb)
                /\ total_gcs_gb' = total_gcs_gb + bucket_size_gb
    /\ bi' = bi + 1
    /\ UNCHANGED <<gcsFrame, pc, caught>>

\* The body of "for bucket in buckets", lines 217-231.  total_gcs_gb is held
\* in hundredths: it is a sum of values rounded to 2 decimals.
BucketNext ==
    /\ pc = "bucket_loop"
    /\ bi <= Len(buckets.items)
    /\ LET bucket == buckets.items[bi]
           bucket_size_gb == Round2Units(bucket_size_bytes(bucket.blobs))
       IN  /\ gcs_usage' = Put(gcs_usage, bucket.name, bucket_size_gb)
           /\ total_gcs_gb' = total_gcs_gb + bucket_size_gb
    /\ bi' = bi + 1
    /\ UNCHANGED <<gcsFrame, pc, caught>>

\* The end of the bucket listing, exhausted or raising (lines 233-234), and
\* lines 236-237.
GcsReturn ==
    /\ pc = "bucket_loop"
    /\ bi > Len(buckets.items)
    /\ caught' = IF buckets.fails THEN "Exception" ELSE caught
    /\ gcs_usage' = Put(gcs_usage, "total_gcs_gb", total_gcs_gb)
    /\ pc' = "done"
    /\ UNCHANGED <<gcsFrame, bi, total_gcs_gb>>

NextGcs == BucketNext \/ GcsReturn

SpecGcs == InitGcs /\ [][NextGcs]_vars

\* The usage of bucket i as its blob listing gives it: everything yielded.
ListedUsage(i) ==
    RoundHalfEven(100 * SumSeq(buckets.items[i].blobs.items), 512)

SomeBlobListingFails ==
    \E i \in DOMAIN buckets.items : buckets.items[i].blobs.fails

Recorded(i) ==
    /\ buckets.items[i].name \in DOMAIN gcs_usage
    /\ gcs_usage[buckets.items[i].name] = ListedUsage(i)

\* C3 as stated: when the enumeration of one bucket's objects fails part way,
\* every other bucket is recorded with its full usage and the reported total
\* is the sum of the usages of only the buckets whose enumeration succeeded.
C3_TotalOfSuccessfulBucketsOnly ==
    (entry = "get_gcs_usage" /\ pc = "done" /\ SomeBlobListingFails) =>
        /\ \A i \in DOMAIN buckets.items :
               ~buckets.items[i].blobs.fails => Recorded(i)
        /\ gcs_usage["total_gcs_gb"] =
               SumSeq([i \in DOMAIN buckets.items |->
                          IF buckets.items[i].blobs.fails THEN 0
                          ELSE ListedUsage(i)])

\* C3 amended: when the enumeration of one bucket's objects fails part way,
\* the run does not abort; every bucket, the failed one with the sum of the
\* objects enumerated before the failure and every other one with its full
\* usage, is recorded under its name (except under the key total_gcs_gb, which
\* holds the total), and the reported total is the sum of the usages of all the
\* listed buckets, the partial usage of the failed one included.
C3_TotalIncludesPartialUsage ==
    (entry = "get_gcs_usage" /\ pc = "done" /\ SomeBlobListingFails) =>
        /\ \A i \in DOMAIN buckets.items :
               buckets.items[i].name # "total_gcs_gb" => Recorded(i)
        /\ gcs_usage["total_gcs_gb"] =
               SumSeq([i \in DOMAIN buckets.items |-> ListedUsage(i)])

C3_Witness ==
    /\ entry = "get_gcs_usage"
    /\ pc = "done"
    /\ Len(buckets.items) = 2
    /\ buckets.items[1].name = "b1"
    /\ buckets.items[1].blobs = [items |-> <<512>>, fails |-> TRUE]
    /\ buckets.items[2].name = "b2"
    /\ buckets.items[2].blobs = [items |-> <<512, 64>>, fails |-> FALSE]
    /\ gcs_usage["b1"] = 100
    /\ gcs_usage["b2"] = 112
    /\ gcs_usage["total_gcs_gb"] = 212

RECURSIVE SumOver(_, _)
SumOver(f, S) ==
    IF S = {} THEN 0
    ELSE LET x == CHOOSE y \in S : TRUE IN f[x] + SumOver(f, S \ {x})

\* C4: in every result of get_gcs_usage the total entry equals the sum of the
\* per-bucket values held in the returned usage map.
C4_TotalIsSumOfMapValues ==
    (entry = "get_gcs_usage" /\ pc = "done") =>
        gcs_usage["total_gcs_gb"] =
            SumOver(gcs_usage, DOMAIN gcs_usage \ {"total_gcs_gb"})

\* --------------------------------------------------------------------- main
\* PROJECT_ID: unset (None), empty, or a project
ProjectIds == {None, "", "p1"}

FailingListing == [items |-> <<>>, fails |-> TRUE]

\* A run of main: the environment holds what every remote call of the stages
\* would answer.  self is the collector line 328 constructs.
InitMain ==
    /\ entry = "main"
    /\ pc = "main"
    /\ self = ClassAttrs
    /\ project_id \in ProjectIds
    /\ ctor_fails \in BOOLEAN
    /\ machine_type = <<>>
    /\ disks = <<>>
    /\ zones \in ZoneListings
    /\ snapshots \in {NoListing, FailingListing}
    /\ buckets \in {NoListing, FailingListing}
    /\ Idle

mainFrame == <<inputs, specs, disks_info, instances_info, si,
               total_snapshot_gb, snapshot_usage, bi, gcs_usage,
               total_gcs_gb, result>>

\* lines 320-325
MainStart ==
    /\ pc = "main"
    /\ pc' = IF project_id \in {None, ""} THEN "done" ELSE "construct"
    /\ UNCHANGED <<mainFrame, zi, ii, caught>>

\* line 328, inside the try of line 327; a failure goes to lines 361-364
MainConstruct ==
    /\ pc = "construct"
    /\ IF ctor_fails
       THEN /\ pc' = "done"
            /\ caught' = "Exception"
       ELSE /\ pc' = "collect"
            /\ UNCHANGED caught
    /\ UNCHANGED <<mainFrame, zi, ii>>

\* line 331: the attribute lookup collector.get_compute_resources.  The
\* collector has the attributes of ClassAttrs only, the lookup raises
\* AttributeError and the handler of lines 361-364 ends the run; lines
\* 332-359, which assemble result, are not reached.
MainCollect ==
    /\ pc = "collect"
    /\ IF "get_compute_resources" \in self
       THEN /\ pc' = "zone_loop"
            /\ zi' = 1 /\ ii' = 1
            /\ UNCHANGED caught
       ELSE /\ pc' = "done"
            /\ caught' = "AttributeError"
            /\ UNCHANGED <<zi, ii>>
    /\ UNCHANGED mainFrame

NextMain == MainStart \/ MainConstruct \/ MainCollect

SpecMain == InitMain /\ [][NextMain]_vars

\* C1: when the project identifier is present, every run of main ends with an
\* assembled snapshot (project id, instances, snapshot total, bucket usage,
\* timestamp), whatever remote calls of the stages fail.
C1_RunEndsWithSnapshot ==
    (/\ entry = "main"
     /\ pc = "done"
     /\ project_id \notin {None, ""}
     /\ ~ctor_fails)
        => /\ result # None
           /\ DOMAIN result = {"project_id", "instances", "snapshot_total_gb",
                               "gcs_usage", "timestamp"}

====
